---- MODULE Spec2Model ----
(***************************************************************************)
(* A model of tumblr_post.py: the markdown Extractor, the Composer, and    *)
(* the command-line Driver that validates its input, initialises the       *)
(* client, parses or normalises the fields, and dispatches one text post.  *)
(*                                                                         *)
(* Text is modelled as a sequence of one-character strings, so that        *)
(* strip, split, join and the regular expressions are computed character   *)
(* by character, as Python computes them.                                  *)
(***************************************************************************)
EXTENDS Integers, Sequences, FiniteSets, TLC

VARIABLES
    pc,          \* position of main(): "start", "init", "input", "ready", "result", "exit"
    args,        \* the parsed command line (an absent flag is the empty string)
    LOUD,        \* os.getenv("LOUD") == "1"
    file,        \* the file at args.file: [exists, text]
    env,         \* the five configuration values that are set (read by TumblrPoster.__init__)
    envRead,     \* whether TumblrPoster.__init__ has read the configuration
    fields,      \* title, description, image_url, alt_text, link, hashtags, from_file
    out,         \* the lines printed so far
    calls,       \* the calls made to the external client, in order
    response,    \* what post_text returned
    exitCode,    \* <<status>> once the process has exited, <<>> while it runs
    fnIn,        \* input of the Extractor or Composer applied on its own
    fnOut        \* its result

vars == <<pc, args, LOUD, file, env, envRead, fields, out, calls, response,
          exitCode, fnIn, fnOut>>

driverVars == <<pc, args, LOUD, file, env, envRead, fields, out, calls,
                response, exitCode>>

-----------------------------------------------------------------------------
(* Bounds of the model.                                                    *)

MaxTagFrags == 4

MaxBodyFrags == 2

-----------------------------------------------------------------------------
(* Python string primitives.                                               *)

\* The characters str.strip() and str.split() treat as whitespace.
Whitespace == {" ", "\t", "\n", "\r", "\f"}

\* str.lstrip(chars)
LStrip(s, cs) ==
    IF \A i \in 1..Len(s) : s[i] \in cs
    THEN <<>>
    ELSE LET k == CHOOSE i \in 1..Len(s) :
                     s[i] \notin cs /\ \A j \in 1..(i - 1) : s[j] \in cs
         IN  SubSeq(s, k, Len(s))

\* str.rstrip(chars)
RStrip(s, cs) ==
    IF \A i \in 1..Len(s) : s[i] \in cs
    THEN <<>>
    ELSE LET k == CHOOSE i \in 1..Len(s) :
                     s[i] \notin cs /\ \A j \in (i + 1)..Len(s) : s[j] \in cs
         IN  SubSeq(s, 1, k)

\* str.strip()
Strip(s) == RStrip(LStrip(s, Whitespace), Whitespace)

\* str.split() with no argument: the maximal runs of non-whitespace.
RECURSIVE SplitWs(_)
SplitWs(s) ==
    LET t == LStrip(s, Whitespace)
    IN  IF t = <<>>
        THEN <<>>
        ELSE LET stops == {i \in 1..Len(t) : t[i] \in Whitespace}
                 n == IF stops = {}
                      THEN Len(t)
                      ELSE (CHOOSE i \in stops : \A j \in stops : i <= j) - 1
             IN  <<SubSeq(t, 1, n)>> \o SplitWs(SubSeq(t, n + 1, Len(t)))

\* str.split(sep) for a one-character separator: empty pieces are kept.
RECURSIVE SplitOn(_, _)
SplitOn(s, c) ==
    LET hits == {i \in 1..Len(s) : s[i] = c}
    IN  IF hits = {}
        THEN <<s>>
        ELSE LET k == CHOOSE i \in hits : \A j \in hits : i <= j
             IN  <<SubSeq(s, 1, k - 1)>> \o SplitOn(SubSeq(s, k + 1, Len(s)), c)

\* file.readlines(): the lines, each keeping its terminating newline.
RECURSIVE ReadLines(_)
ReadLines(text) ==
    LET hits == {i \in 1..Len(text) : text[i] = "\n"}
    IN  IF text = <<>>
        THEN <<>>
        ELSE IF hits = {}
        THEN <<text>>
        ELSE LET k == CHOOSE i \in hits : \A j \in hits : i <= j
             IN  <<SubSeq(text, 1, k)>> \o ReadLines(SubSeq(text, k + 1, Len(text)))

\* sep.join(parts)
RECURSIVE Join(_, _)
Join(parts, sep) ==
    IF parts = <<>>
    THEN <<>>
    ELSE IF Len(parts) = 1
    THEN parts[1]
    ELSE parts[1] \o sep \o Join(Tail(parts), sep)

-----------------------------------------------------------------------------
(* The regular expressions of the Extractor.  A pattern is a sequence of   *)
(* elements: a literal string, or a character class (negated or not)       *)
(* repeated min..1 or min..many times, greedily, which may be a capture    *)
(* group.                                                                  *)

Lit(str) == [lit |-> TRUE, str |-> str]

Cls(neg, set, min, many, grp) ==
    [lit |-> FALSE, neg |-> neg, set |-> set, min |-> min, many |-> many,
     grp |-> grp]

Quotes == {"\"", "'"}

\* r"!\[([^\]]*)\]\(([^)]+)\)"
md_pattern ==
    <<Lit(<<"!", "[">>), Cls(TRUE, {"]"}, 0, TRUE, 1), Lit(<<"]", "(">>),
      Cls(TRUE, {")"}, 1, TRUE, 2), Lit(<<")">>)>>

\* r'<img[^>]+src=["\']([^"\']+)["\'][^>]*alt=["\']([^"\']*)["\'][^>]*>'
html_pattern ==
    <<Lit(<<"<", "i", "m", "g">>), Cls(TRUE, {">"}, 1, TRUE, 0),
      Lit(<<"s", "r", "c", "=">>),
      Cls(FALSE, Quotes, 1, FALSE, 0), Cls(TRUE, Quotes, 1, TRUE, 1),
      Cls(FALSE, Quotes, 1, FALSE, 0), Cls(TRUE, {">"}, 0, TRUE, 0),
      Lit(<<"a", "l", "t", "=">>),
      Cls(FALSE, Quotes, 1, FALSE, 0), Cls(TRUE, Quotes, 0, TRUE, 2),
      Cls(FALSE, Quotes, 1, FALSE, 0), Cls(TRUE, {">"}, 0, TRUE, 0),
      Lit(<<">">>)>>

\* r'<img[^>]+alt=["\']([^"\']*)["\'][^>]*src=["\']([^"\']+)["\'][^>]*>'
html_pattern2 ==
    <<Lit(<<"<", "i", "m", "g">>), Cls(TRUE, {">"}, 1, TRUE, 0),
      Lit(<<"a", "l", "t", "=">>),
      Cls(FALSE, Quotes, 1, FALSE, 0), Cls(TRUE, Quotes, 0, TRUE, 1),
      Cls(FALSE, Quotes, 1, FALSE, 0), Cls(TRUE, {">"}, 0, TRUE, 0),
      Lit(<<"s", "r", "c", "=">>),
      Cls(FALSE, Quotes, 1, FALSE, 0), Cls(TRUE, Quotes, 1, TRUE, 2),
      Cls(FALSE, Quotes, 1, FALSE, 0), Cls(TRUE, {">"}, 0, TRUE, 0),
      Lit(<<">">>)>>

\* r"\[([^\]]+)\]\(([^)]+)\)"
link_pattern ==
    <<Lit(<<"[">>), Cls(TRUE, {"]"}, 1, TRUE, 1), Lit(<<"]", "(">>),
      Cls(TRUE, {")"}, 1, TRUE, 2), Lit(<<")">>)>>

Accepts(e, c) == (c \in e.set) # e.neg

\* Whether the literal str stands in s at pos.
LitAt(str, s, pos) ==
    /\ pos + Len(str) - 1 <= Len(s)
    /\ \A i \in 1..Len(str) : s[pos + i - 1] = str[i]

\* The longest run of characters from pos that the class e accepts.
RunLen(e, s, pos) ==
    LET room == Len(s) - pos + 1
        limit == IF e.many THEN room ELSE IF room >= 1 THEN 1 ELSE 0
        fits == {n \in 0..limit : \A i \in 0..(n - 1) : Accepts(e, s[pos + i])}
    IN  CHOOSE n \in fits : \A m \in fits : m <= n

NoMatch == [ok |-> FALSE, start |-> 0, end |-> 0, groups |-> <<<<>>, <<>>>>]

\* The backtracking matcher: elements k.. of re against s from pos.  A class
\* takes the longest run with which the rest of the pattern still matches.
RECURSIVE MatchFrom(_, _, _, _, _)
MatchFrom(re, k, s, pos, groups) ==
    IF k > Len(re)
    THEN [ok |-> TRUE, start |-> 0, end |-> pos, groups |-> groups]
    ELSE IF re[k].lit
    THEN IF LitAt(re[k].str, s, pos)
         THEN MatchFrom(re, k + 1, s, pos + Len(re[k].str), groups)
         ELSE NoMatch
    ELSE LET e == re[k]
             with(n) == IF e.grp = 0
                        THEN groups
                        ELSE [groups EXCEPT ![e.grp] = SubSeq(s, pos, pos + n - 1)]
             rest(n) == MatchFrom(re, k + 1, s, pos + n, with(n))
             good == {n \in e.min..RunLen(e, s, pos) : rest(n).ok}
         IN  IF good = {}
             THEN NoMatch
             ELSE rest(CHOOSE n \in good : \A m \in good : m <= n)

\* re.search from position start: the leftmost match.
Search(re, s, start) ==
    LET at(p) == MatchFrom(re, 1, s, p, <<<<>>, <<>>>>)
        hits == {p \in start..Len(s) : at(p).ok}
    IN  IF hits = {}
        THEN NoMatch
        ELSE LET p == CHOOSE q \in hits : \A r \in hits : q <= r
             IN  [at(p) EXCEPT !.start = p]

\* re.findall: the groups of the non-overlapping matches, left to right.
RECURSIVE FindAll(_, _, _)
FindAll(re, s, start) ==
    LET r == Search(re, s, start)
    IN  IF ~r.ok THEN <<>> ELSE <<r.groups>> \o FindAll(re, s, r.end)

-----------------------------------------------------------------------------
(* The Extractor: TumblrPoster.parse_markdown_file and its helpers.        *)

\* The loop of _parse_hashtags over the tokens of the line.
RECURSIVE CleanTags(_)
CleanTags(tokens) ==
    IF tokens = <<>>
    THEN <<>>
    ELSE LET clean_tag == Strip(LStrip(tokens[1], {"#"}))
         IN  (IF clean_tag # <<>> THEN <<clean_tag>> ELSE <<>>)
                 \o CleanTags(Tail(tokens))

\* A variant that removes one leading "#" only.
parse_hashtags_one_hash(hashtags_line) ==
    LET drop(t) == IF t # <<>> /\ t[1] = "#" THEN Tail(t) ELSE t
        toks == SplitWs(hashtags_line)
    IN  SelectSeq([i \in 1..Len(toks) |-> drop(toks[i])], LAMBDA t : t # <<>>)

_parse_hashtags(hashtags_line) ==
    IF hashtags_line = <<>> THEN <<>> ELSE CleanTags(SplitWs(hashtags_line))

_extract_image_info(body) ==
    LET md_match == Search(md_pattern, body, 1)
        html_match == Search(html_pattern, body, 1)
        html_match2 == Search(html_pattern2, body, 1)
    IN  IF md_match.ok
        THEN [alt |-> md_match.groups[1], url |-> md_match.groups[2]]
        ELSE IF html_match.ok
        THEN [url |-> html_match.groups[1], alt |-> html_match.groups[2]]
        ELSE IF html_match2.ok
        THEN [alt |-> html_match2.groups[1], url |-> html_match2.groups[2]]
        ELSE [url |-> <<>>, alt |-> <<>>]

_extract_links(body) ==
    LET matches == FindAll(link_pattern, body, 1)
    IN  [i \in 1..Len(matches) |-> [text |-> matches[i][1], url |-> matches[i][2]]]

\* A file of the file system: absent, or present with its text.
NoFile == [exists |-> FALSE, text |-> <<>>]

FileOf(text) == [exists |-> TRUE, text |-> text]

\* The value of a raised exception.
Raised(e) == [raised |-> e]

\* parse_markdown_file: the fields, or the exception it raises.
parse_markdown_file(f) ==
    IF ~f.exists
    THEN Raised("FileNotFoundError")
    ELSE LET lines == ReadLines(f.text)
         IN  IF Len(lines) < 3
             THEN Raised("ValueError")
             ELSE LET title == Strip(lines[1])
                      hashtags_line == Strip(lines[2])
                      body == Strip(Join(SubSeq(lines, 3, Len(lines)), <<>>))
                      image_info == _extract_image_info(body)
                  IN  [raised |-> "",
                       title |-> title,
                       description |-> body,
                       hashtags |-> _parse_hashtags(hashtags_line),
                       image_url |-> image_info.url,
                       alt_text |-> image_info.alt,
                       links |-> _extract_links(body)]

-----------------------------------------------------------------------------
(* The Composer: TumblrPoster.create_post_content.                         *)

ImgOpen == <<"<", "i", "m", "g", " ", "s", "r", "c", "=", "\"">>

ImgAlt == <<"\"", " ", "a", "l", "t", "=", "\"">>

ImgClose == <<"\"", ">">>

MdImageOpen == <<"!", "[", "I", "m", "a", "g", "e", "]", "(">>

MdLinkOpen == <<"[", "L", "i", "n", "k", "]", "(">>

\* f'<img src="{image_url}" alt="{alt_text}">' or f"![Image]({image_url})"
img_html(image_url, alt_text) ==
    IF alt_text # <<>>
    THEN ImgOpen \o image_url \o ImgAlt \o alt_text \o ImgClose
    ELSE MdImageOpen \o image_url \o <<")">>

\* f"[{title}]({link})" or f"[Link]({link})"
link_md(title, link) ==
    IF title # <<>>
    THEN <<"[">> \o title \o <<"]", "(">> \o link \o <<")">>
    ELSE MdLinkOpen \o link \o <<")">>

\* A variant that appends the description whether or not it is empty.
create_post_content_keeps_empty(title, description, image_url, alt_text, link, hashtags) ==
    Join(<<description>>
             \o (IF image_url # <<>> THEN <<img_html(image_url, alt_text)>> ELSE <<>>)
             \o (IF link # <<>> THEN <<link_md(title, link)>> ELSE <<>>),
         <<"\n", "\n">>)

create_post_content(title, description, image_url, alt_text, link, hashtags) ==
    LET content_parts ==
            (IF description # <<>> THEN <<description>> ELSE <<>>)
                \o (IF image_url # <<>> THEN <<img_html(image_url, alt_text)>> ELSE <<>>)
                \o (IF link # <<>> THEN <<link_md(title, link)>> ELSE <<>>)
    IN  Join(content_parts, <<"\n", "\n">>)

-----------------------------------------------------------------------------
(* Inputs of the Extractor.                                                *)

\* All sequences of at most n elements of S.
SeqsUpTo(S, n) == UNION {[1..k -> S] : k \in 0..n}

NL == <<"\n">>

ExampleFile ==
    <<"T", "i", "t", "l", "e", "\n", "#", "a", " ", "#", "b", "\n",
      "B", "o", "d", "y", " ", "t", "e", "x", "t", "\n",
      "!", "[", "a", "l", "t", "]", "(", "h", "t", "t", "p", ":", "/", "/",
      "i", "m", "g", ")", "\n",
      "[", "g", "o", "]", "(", "h", "t", "t", "p", ":", "/", "/",
      "l", "i", "n", "k", ")">>

ExampleBody ==
    <<"B", "o", "d", "y", " ", "t", "e", "x", "t", "\n",
      "!", "[", "a", "l", "t", "]", "(", "h", "t", "t", "p", ":", "/", "/",
      "i", "m", "g", ")", "\n",
      "[", "g", "o", "]", "(", "h", "t", "t", "p", ":", "/", "/",
      "l", "i", "n", "k", ")">>

ExampleTagsLine == <<"#", "a", " ", "#", "#", "b", " ", " ", "c">>

TitleLines == {<<>>, <<"T">>, <<" ", "T", " ", "i", "\t">>}

TagFrags == {<<"#">>, <<"a">>, <<" ">>, <<"b">>}

TagLines ==
    {Join(fs, <<>>) : fs \in SeqsUpTo(TagFrags, MaxTagFrags)} \cup {ExampleTagsLine}

MdImage == <<"!", "[", "a", "]", "(", "i", ")">>

MdImageNoAlt == <<"!", "[", "]", "(", "j", ")">>

MdLink == <<"[", "g", "]", "(", "l", ")">>

HtmlImageSrcAlt ==
    <<"<", "i", "m", "g", " ", "s", "r", "c", "=", "\"", "h", "\"", " ",
      "a", "l", "t", "=", "'", "c", "'", ">">>

HtmlImageAltSrc ==
    <<"<", "i", "m", "g", " ", "a", "l", "t", "=", "\"", "d", "\"", " ",
      "s", "r", "c", "=", "\"", "k", "\"", ">">>

BodyFrags ==
    {<<"x">>, <<" ">>, NL, <<"]">>, MdImage, MdImageNoAlt, MdLink,
     HtmlImageSrcAlt, HtmlImageAltSrc}

Bodies == {Join(fs, <<>>) : fs \in SeqsUpTo(BodyFrags, MaxBodyFrags)}

\* Files with a varied title line and hashtags line.
HeadFiles ==
    {FileOf(t \o NL \o h \o NL \o <<"x", "\n">>) : t \in TitleLines, h \in TagLines}

\* Files with a varied body.
BodyFiles == {FileOf(<<"T", "\n", "#", "a", "\n">> \o b) : b \in Bodies}

\* Files of fewer than three lines.
ShortFiles ==
    {FileOf(<<>>), FileOf(<<"T">>), FileOf(<<"T", "\n">>),
     FileOf(<<"T", "\n", "#", "a">>), FileOf(<<"T", "\n", "#", "a", "\n">>)}

ExtractInputs ==
    HeadFiles \cup BodyFiles \cup ShortFiles \cup {NoFile, FileOf(ExampleFile)}

-----------------------------------------------------------------------------
(* The state of a run of main() that has not started: the value of the     *)
(* Driver's variables while a pure function is checked on its own.         *)

\* exitCode while the process runs; <<n>> once it has exited with status n.
NoExit == <<>>

NoArgs ==
    [file |-> <<>>, title |-> <<>>, description |-> <<>>, image_url |-> <<>>,
     alt_text |-> <<>>, link |-> <<>>, hashtags |-> <<>>, dry_run |-> FALSE]

NoFields ==
    [title |-> <<>>, description |-> <<>>, image_url |-> <<>>, alt_text |-> <<>>,
     link |-> <<>>, hashtags |-> <<>>, from_file |-> FALSE]

NoResponse == {}

DriverIdle ==
    /\ pc = "idle"
    /\ args = NoArgs
    /\ LOUD = FALSE
    /\ file = NoFile
    /\ env = {}
    /\ envRead = FALSE
    /\ fields = NoFields
    /\ out = <<>>
    /\ calls = <<>>
    /\ response = NoResponse
    /\ exitCode = NoExit

NotRun == Raised("not run")

-----------------------------------------------------------------------------
(* The Extractor on its own: one file, parsed once.                        *)

InitExtract ==
    /\ DriverIdle
    /\ fnIn \in ExtractInputs
    /\ fnOut = NotRun

ParseFile ==
    /\ fnOut = NotRun
    /\ fnOut' = parse_markdown_file(fnIn)
    /\ UNCHANGED <<fnIn, driverVars>>

NextExtract == ParseFile

SpecExtract == InitExtract /\ [][NextExtract]_vars

-----------------------------------------------------------------------------
(* What the claims about the Extractor speak of, stated over the file's    *)
(* text by positions rather than by the Extractor's own scanning.          *)

Newlines(text) == {i \in 1..Len(text) : text[i] = "\n"}

\* The position of the n-th newline of text.
NthNewline(text, n) ==
    CHOOSE i \in Newlines(text) :
        Cardinality({j \in Newlines(text) : j < i}) = n - 1

\* A file has at least three lines when text follows its second newline.
HasThreeLines(f) ==
    /\ f.exists
    /\ Cardinality(Newlines(f.text)) >= 2
    /\ NthNewline(f.text, 2) < Len(f.text)

\* Line n of the text (n = 1 or 2), without its newline.
LineText(text, n) ==
    SubSeq(text,
           IF n = 1 THEN 1 ELSE NthNewline(text, n - 1) + 1,
           NthNewline(text, n) - 1)

\* Lines 3..end of the text, joined.
RestText(text) == SubSeq(text, NthNewline(text, 2) + 1, Len(text))

\* t is s without its leading and trailing whitespace.
IsTrimOf(t, s) ==
    \E i \in 1..(Len(s) + 1), j \in 0..Len(s) :
        /\ t = SubSeq(s, i, j)
        /\ \A k \in 1..(i - 1) : s[k] \in Whitespace
        /\ \A k \in (j + 1)..Len(s) : s[k] \in Whitespace
        /\ t # <<>> => (t[1] \notin Whitespace /\ t[Len(t)] \notin Whitespace)

\* The maximal runs of non-whitespace of a line, as <<first, last>>.
TokenRuns(line) ==
    {r \in (1..Len(line)) \X (1..Len(line)) :
        /\ r[1] <= r[2]
        /\ \A k \in r[1]..r[2] : line[k] \notin Whitespace
        /\ r[1] = 1 \/ line[r[1] - 1] \in Whitespace
        /\ r[2] = Len(line) \/ line[r[2] + 1] \in Whitespace}

\* The given spans of s, in the order of their first positions.
InOrder(s, spans) ==
    [k \in 1..Cardinality(spans) |->
        LET r == CHOOSE q \in spans :
                     Cardinality({x \in spans : x[1] < q[1]}) = k - 1
        IN  r]

\* t with all its leading "#" removed.
Unhashed(t) ==
    LET m == CHOOSE n \in 0..Len(t) :
                 /\ \A i \in 1..n : t[i] = "#"
                 /\ n = Len(t) \/ t[n + 1] # "#"
    IN  SubSeq(t, m + 1, Len(t))

ExpectedTags(line) ==
    LET runs == InOrder(line, TokenRuns(line))
        toks == [k \in 1..Len(runs) |-> Unhashed(SubSeq(line, runs[k][1], runs[k][2]))]
    IN  SelectSeq(toks, LAMBDA t : t # <<>>)

Applied == fnOut # NotRun

(* C9: for any file with at least 3 lines, the Extractor's title is line 1  *)
(* trimmed and its hashtags are the whitespace-separated tokens of line 2,  *)
(* each without its leading "#" characters, empty ones dropped, order and   *)
(* duplicates kept; "#a ##b  c" gives a, b, c.                              *)
C9_TitleAndHashtags ==
    (Applied /\ HasThreeLines(fnIn)) =>
        /\ fnOut.raised = ""
        /\ IsTrimOf(fnOut.title, LineText(fnIn.text, 1))
        /\ fnOut.hashtags = ExpectedTags(LineText(fnIn.text, 2))
        /\ LineText(fnIn.text, 2) = ExampleTagsLine =>
               fnOut.hashtags = <<<<"a">>, <<"b">>, <<"c">>>>
        /\ (\A i \in 1..Len(LineText(fnIn.text, 2)) :
                LineText(fnIn.text, 2)[i] = "#") => fnOut.hashtags = <<>>

\* A parsed file whose hashtags line is "#a ##b  c" and whose title line
\* carries surrounding whitespace.
C9_Witness ==
    /\ Applied
    /\ HasThreeLines(fnIn)
    /\ LineText(fnIn.text, 2) = ExampleTagsLine
    /\ LineText(fnIn.text, 1) = <<" ", "T", " ", "i", "\t">>
    /\ fnOut.title = <<"T", " ", "i">>
    /\ fnOut.hashtags = <<<<"a">>, <<"b">>, <<"c">>>>

\* The spans <<first, last, close>> of body that read [text](url) with a
\* non-empty text and url: "[" at first, "]" at close, ")" at last.
LinkSpans(body) ==
    {r \in (1..Len(body)) \X (1..Len(body)) \X (1..Len(body)) :
        /\ r[1] + 1 < r[3] /\ r[3] + 2 < r[2]
        /\ body[r[1]] = "[" /\ body[r[3]] = "]" /\ body[r[3] + 1] = "("
        /\ body[r[2]] = ")"
        /\ \A k \in (r[1] + 1)..(r[3] - 1) : body[k] # "]"
        /\ \A k \in (r[3] + 2)..(r[2] - 1) : body[k] # ")"}

\* The markdown links of body: the link spans that are not the tail of an
\* image ![alt](url).
AuthoredLinks(body) ==
    LET spans == InOrder(body, {r \in LinkSpans(body) : r[1] = 1 \/ body[r[1] - 1] # "!"})
    IN  [k \in 1..Len(spans) |->
            [text |-> SubSeq(body, spans[k][1] + 1, spans[k][3] - 1),
             url |-> SubSeq(body, spans[k][3] + 2, spans[k][2] - 1)]]

\* The spans <<first, last, close>> of body that read ![alt](url).
ImageSpans(body) ==
    {r \in (1..Len(body)) \X (1..Len(body)) \X (1..Len(body)) :
        /\ r[1] + 1 < r[3] /\ r[3] + 2 < r[2]
        /\ body[r[1]] = "!" /\ body[r[1] + 1] = "["
        /\ body[r[3]] = "]" /\ body[r[3] + 1] = "(" /\ body[r[2]] = ")"
        /\ \A k \in (r[1] + 2)..(r[3] - 1) : body[k] # "]"
        /\ \A k \in (r[3] + 2)..(r[2] - 1) : body[k] # ")"}

(* C6: for any file with at least 3 lines the Extractor returns the body   *)
(* (lines 3..end joined and trimmed), the url and alt of the first         *)
(* markdown image of the body, and as links exactly the markdown links     *)
(* [text](url) in document order; the example file yields the one link     *)
(* {go, http://link}, the image not being reported as a link.              *)
C6_ExtractorFields ==
    (Applied /\ HasThreeLines(fnIn)) =>
        /\ fnOut.raised = ""
        /\ IsTrimOf(fnOut.description, RestText(fnIn.text))
        /\ ImageSpans(fnOut.description) # {} =>
               LET r == InOrder(fnOut.description, ImageSpans(fnOut.description))[1]
               IN  /\ fnOut.alt_text = SubSeq(fnOut.description, r[1] + 2, r[3] - 1)
                   /\ fnOut.image_url = SubSeq(fnOut.description, r[3] + 2, r[2] - 1)
        /\ fnOut.links = AuthoredLinks(fnOut.description)
        /\ fnIn.text = ExampleFile =>
               /\ fnOut.description = ExampleBody
               /\ fnOut.links =
                      <<[text |-> <<"g", "o">>,
                         url |-> <<"h", "t", "t", "p", ":", "/", "/", "l", "i", "n", "k">>]>>

\* What does hold of the Extractor's body and image fields.
C6_BodyAndImage ==
    (Applied /\ HasThreeLines(fnIn)) =>
        /\ fnOut.raised = ""
        /\ IsTrimOf(fnOut.description, RestText(fnIn.text))
        /\ ImageSpans(fnOut.description) # {} =>
               LET r == InOrder(fnOut.description, ImageSpans(fnOut.description))[1]
               IN  /\ fnOut.alt_text = SubSeq(fnOut.description, r[1] + 2, r[3] - 1)
                   /\ fnOut.image_url = SubSeq(fnOut.description, r[3] + 2, r[2] - 1)

-----------------------------------------------------------------------------
(* The Composer on its own: one set of discrete fields, composed once.     *)

Titles == {<<>>, <<"H", "i">>}

Descriptions == {<<>>, <<"d">>, <<"a", "\n", "\n", "b">>}

ImageUrls == {<<>>, <<"h", "t", "t", "p", ":", "/", "/", "i">>}

AltTexts == {<<>>, <<"c", "a", "t">>}

Links == {<<>>, <<"h", "t", "t", "p", ":", "/", "/", "x">>}

TagLists == {<<>>, <<<<"t">>>>}

ComposeInputs ==
    [title : Titles, description : Descriptions, image_url : ImageUrls,
     alt_text : AltTexts, link : Links, hashtags : TagLists]

InitCompose ==
    /\ DriverIdle
    /\ fnIn \in ComposeInputs
    /\ fnOut = NotRun

Compose ==
    /\ fnOut = NotRun
    /\ fnOut' = [raised |-> "",
                 content |-> create_post_content(fnIn.title, fnIn.description,
                                                 fnIn.image_url, fnIn.alt_text,
                                                 fnIn.link, fnIn.hashtags)]
    /\ UNCHANGED <<fnIn, driverVars>>

NextCompose == Compose

SpecCompose == InitCompose /\ [][NextCompose]_vars

Blank == <<"\n", "\n">>

\* The image segment and the link segment the claim describes.
ImageSegment(url, alt) ==
    IF alt = <<>>
    THEN <<"!", "[", "I", "m", "a", "g", "e", "]", "(">> \o url \o <<")">>
    ELSE <<"<", "i", "m", "g", " ", "s", "r", "c", "=", "\"">> \o url
             \o <<"\"", " ", "a", "l", "t", "=", "\"">> \o alt \o <<"\"", ">">>

LinkSegment(title, link) ==
    <<"[">> \o (IF title = <<>> THEN <<"L", "i", "n", "k">> ELSE title)
        \o <<"]", "(">> \o link \o <<")">>

\* The eight combinations of included segments, written out.
ExpectedContent(f) ==
    LET D == f.description # <<>>
        I == f.image_url # <<>>
        L == f.link # <<>>
        d == f.description
        i == ImageSegment(f.image_url, f.alt_text)
        l == LinkSegment(f.title, f.link)
    IN  CASE D /\ I /\ L -> d \o Blank \o i \o Blank \o l
          [] D /\ I /\ ~L -> d \o Blank \o i
          [] D /\ ~I /\ L -> d \o Blank \o l
          [] D /\ ~I /\ ~L -> d
          [] ~D /\ I /\ L -> i \o Blank \o l
          [] ~D /\ I /\ ~L -> i
          [] ~D /\ ~I /\ L -> l
          [] ~D /\ ~I /\ ~L -> <<>>

(* C7: the Composer's output is the included segments joined by exactly    *)
(* one blank line in the order description, image, link, with no leading   *)
(* or trailing separator and none for an omitted segment; the image is an  *)
(* <img> tag when there is alt text and ![Image](URL) otherwise; the link  *)
(* is [TITLE](LINK) when there is a title and [Link](LINK) otherwise; all  *)
(* inputs empty give the empty string.                                     *)
C7_ComposerSegments ==
    Applied =>
        /\ fnOut.content = ExpectedContent(fnIn)
        /\ (fnIn.description = <<>> /\ fnIn.image_url = <<>> /\ fnIn.link = <<>>) =>
               fnOut.content = <<>>
        /\ (fnIn.title = <<"H", "i">> /\ fnIn.description = <<>>
                /\ fnIn.image_url = <<>> /\ fnIn.link # <<>>) =>
               fnOut.content =
                   <<"[", "H", "i", "]", "(", "h", "t", "t", "p", ":", "/", "/", "x", ")">>

\* All three segments composed, the image with alt text, the link titled.
C7_Witness ==
    /\ Applied
    /\ fnIn.description = <<"d">> /\ fnIn.alt_text # <<>> /\ fnIn.title # <<>>
    /\ fnOut.content =
           <<"d", "\n", "\n",
             "<", "i", "m", "g", " ", "s", "r", "c", "=", "\"",
             "h", "t", "t", "p", ":", "/", "/", "i",
             "\"", " ", "a", "l", "t", "=", "\"", "c", "a", "t", "\"", ">",
             "\n", "\n",
             "[", "H", "i", "]", "(", "h", "t", "t", "p", ":", "/", "/", "x", ")">>

-----------------------------------------------------------------------------
(* The Driver: main(), with TumblrPoster.__init__ and TumblrPoster.post_text. *)

\* The required configuration values, in the order __init__ checks them.
ConfigOrder ==
    <<"TUMBLR_CONSUMER_KEY", "TUMBLR_CONSUMER_SECRET", "TUMBLR_OAUTH_TOKEN",
      "TUMBLR_OAUTH_TOKEN_SECRET", "TUMBLR_BLOG_NAME">>

ConfigNames == {ConfigOrder[i] : i \in 1..Len(ConfigOrder)}

\* The environments of a run: everything set, one value missing, or none set.
Environments ==
    {ConfigNames, {}} \cup {ConfigNames \ {n} : n \in ConfigNames}

\* What client.info() can do: return a user, return no user, or raise.
InfoResults == {"user", "no user", "raises"}

\* What client.create_text() can do: raise, or return a response with any
\* of the fields id, errors, post_url.
ResponseKeys == {"id", "errors", "post_url"}

CreateResults ==
    {[raises |-> TRUE, keys |-> {}]}
        \cup {[raises |-> FALSE, keys |-> k] : k \in SUBSET ResponseKeys}

\* The files --file can name.
HashOnlyFile == <<"T", "\n", "#", " ", "#", "#", "\n", "x">>

ShortFile == <<"T", "\n", "#", "a", "\n">>

DriverFiles == {NoFile, FileOf(ShortFile), FileOf(ExampleFile), FileOf(HashOnlyFile)}

FilePath == <<"p", ".", "m", "d">>

\* The values of --hashtags.
HashtagArgs ==
    {<<>>, <<"a", ",", "b">>, <<"#">>, <<" ", "#", "a", " ", ",", ",", "b">>,
     <<" ", ",">>}

\* str(n) for a natural number.
RECURSIVE Str(_)
Str(n) ==
    LET digit(d) == <<"0", "1", "2", "3", "4", "5", "6", "7", "8", "9">>[d + 1]
    IN  IF n < 10 THEN <<digit(n)>> ELSE Str(n \div 10) \o <<digit(n % 10)>>

\* A printed line: its kind, which message it is, and the value it shows.
Line(level, what, value) == [level |-> level, what |-> what, value |-> value]

\* print_info prints only if LOUD is set.
print_info(o, what, value) ==
    IF LOUD THEN Append(o, Line("info", what, value)) ELSE o

\* print_error always prints.
print_error(o, what, value) == Append(o, Line("error", what, value))

InitDriver ==
    /\ pc = "start"
    /\ args \in [file : {<<>>, FilePath}, title : Titles,
                 description : {<<>>, <<"d">>}, image_url : ImageUrls,
                 alt_text : AltTexts, link : Links, hashtags : HashtagArgs,
                 dry_run : BOOLEAN]
    /\ LOUD \in BOOLEAN
    /\ file \in (IF args.file = <<>> THEN {NoFile} ELSE DriverFiles)
    /\ env \in Environments
    /\ envRead = FALSE
    /\ fields = NoFields
    /\ out = <<>>
    /\ calls = <<>>
    /\ response = NoResponse
    /\ exitCode = NoExit
    /\ fnIn = NoFile
    /\ fnOut = NotRun

\* sys.exit(status)
Exit(status) ==
    /\ pc' = "exit"
    /\ exitCode' = <<status>>

\* A variant of the input check that accepts any discrete field.
Validate_any_field ==
    /\ pc = "start"
    /\ IF /\ args.file = <<>> /\ args.title = <<>> /\ args.description = <<>>
          /\ args.image_url = <<>> /\ args.alt_text = <<>> /\ args.link = <<>>
          /\ args.hashtags = <<>>
       THEN /\ out' = Append(out, Line("usage", "Must provide", <<>>))
            /\ Exit(2)
       ELSE /\ pc' = "init"
            /\ UNCHANGED <<out, exitCode>>
    /\ UNCHANGED <<args, LOUD, file, env, envRead, fields, calls, response, fnIn, fnOut>>

\* main: the check that there is input; parser.error prints the usage and
\* exits with status 2.
Validate ==
    /\ pc = "start"
    /\ IF args.file = <<>> /\ ~(args.title # <<>> \/ args.description # <<>>)
       THEN /\ out' = Append(out, Line("usage", "Must provide", <<>>))
            /\ Exit(2)
       ELSE /\ pc' = "init"
            /\ UNCHANGED <<out, exitCode>>
    /\ UNCHANGED <<args, LOUD, file, env, envRead, fields, calls, response, fnIn, fnOut>>

\* The names __init__ finds missing, in the order it checks them.
missing_vars == SelectSeq(ConfigOrder, LAMBDA n : n \notin env)

\* poster = TumblrPoster(): reads the configuration, and with all of it
\* present creates the client and calls client.info(); any failure reaches
\* main's handler, which prints it and exits with status 1.
InitPoster ==
    /\ pc = "init"
    /\ envRead' = TRUE
    /\ IF missing_vars # <<>>
       THEN /\ out' = print_error(out, "Error: Missing required environment variables", missing_vars)
            /\ Exit(1)
            /\ UNCHANGED calls
       ELSE \E info \in InfoResults :
                /\ calls' = Append(calls, [op |-> "info", returned |-> info])
                /\ IF info = "user"
                   THEN /\ out' = print_info(out, "Authenticated as", <<>>)
                        /\ pc' = "input"
                        /\ UNCHANGED exitCode
                   ELSE /\ out' = print_error(out, "Error: Failed to initialize Tumblr client", <<>>)
                        /\ Exit(1)
    /\ UNCHANGED <<args, LOUD, file, env, fields, response, fnIn, fnOut>>

\* main: the normalisation of --hashtags.
cli_hashtags(h) ==
    LET hashtags == IF h # <<>> THEN SplitOn(h, ",") ELSE <<>>
        kept == SelectSeq(hashtags, LAMBDA tag : Strip(tag) # <<>>)
    IN  [i \in 1..Len(kept) |-> LStrip(Strip(kept[i]), {"#"})]

\* The fields main takes from a parsed file.
file_fields(post_data) ==
    [title |-> post_data.title,
     description |-> post_data.description,
     image_url |-> post_data.image_url,
     alt_text |-> post_data.alt_text,
     link |-> IF post_data.links # <<>> THEN post_data.links[1].url ELSE <<>>,
     hashtags |-> post_data.hashtags,
     from_file |-> TRUE]

\* The fields main takes from the command line.
cli_fields(a) ==
    [title |-> a.title,
     description |-> a.description,
     image_url |-> a.image_url,
     alt_text |-> a.alt_text,
     link |-> a.link,
     hashtags |-> cli_hashtags(a.hashtags),
     from_file |-> FALSE]

\* A variant that goes on with empty fields when the file does not parse.
ReadInput_goes_on_after_parse_error ==
    /\ pc = "input"
    /\ IF args.file # <<>>
       THEN LET post_data == parse_markdown_file(file)
            IN  /\ fields' = IF post_data.raised # ""
                             THEN [NoFields EXCEPT !.from_file = TRUE]
                             ELSE file_fields(post_data)
                /\ out' = print_info(out, "Reading from file", args.file)
       ELSE /\ fields' = cli_fields(args)
            /\ UNCHANGED out
    /\ pc' = "ready"
    /\ UNCHANGED <<args, LOUD, file, env, envRead, calls, response, exitCode, fnIn, fnOut>>

\* main: the fields of the post, parsed from the file or taken from the
\* command line; a file that does not parse ends the run with status 1.
ReadInput ==
    /\ pc = "input"
    /\ IF args.file # <<>>
       THEN LET reading == print_info(out, "Reading from file", args.file)
                post_data == parse_markdown_file(file)
            IN  IF post_data.raised # ""
                THEN /\ out' = print_error(reading, "Error parsing file", args.file)
                     /\ Exit(1)
                     /\ UNCHANGED fields
                ELSE /\ fields' = file_fields(post_data)
                     /\ out' = print_info(reading, "Successfully parsed file", args.file)
                     /\ pc' = "ready"
                     /\ UNCHANGED exitCode
       ELSE /\ fields' = cli_fields(args)
            /\ pc' = "ready"
            /\ UNCHANGED <<out, exitCode>>
    /\ UNCHANGED <<args, LOUD, file, env, envRead, calls, response, fnIn, fnOut>>

\* The content of the post: the file's body as it is, or the Composer's
\* output over the discrete fields.
content_of(f) ==
    IF f.from_file
    THEN f.description
    ELSE create_post_content(f.title, f.description, f.image_url, f.alt_text,
                             f.link, f.hashtags)

\* main: the dry run prints what would be posted and exits with status 0.
DryRun ==
    /\ pc = "ready"
    /\ args.dry_run
    /\ LET content == content_of(fields)
           l1 == print_info(out, "--- DRY RUN - Content that would be posted ---", <<>>)
           l2 == print_info(l1, "Title", fields.title)
           l3 == print_info(l2, "Tags", Join(fields.hashtags, <<",", " ">>))
           l4 == print_info(l3, "Content length", Str(Len(content)))
           l5 == print_info(l4, "Content", content)
       IN  out' = print_info(l5, "--- END DRY RUN ---", <<>>)
    /\ Exit(0)
    /\ UNCHANGED <<args, LOUD, file, env, envRead, fields, calls, response, fnIn, fnOut>>

\* A variant that composes the body even for a file.
post_data_always_composed(f) ==
    [type |-> "text", format |-> "markdown",
     body |-> create_post_content(f.title, f.description, f.image_url,
                                  f.alt_text, f.link, f.hashtags)]
        @@ (IF f.title # <<>> THEN [title |-> f.title] ELSE <<>>)
        @@ (IF f.hashtags # <<>> THEN [tags |-> f.hashtags] ELSE <<>>)

\* post_text: the payload handed to the client.
post_data(f) ==
    [type |-> "text", format |-> "markdown", body |-> content_of(f)]
        @@ (IF f.title # <<>> THEN [title |-> f.title] ELSE <<>>)
        @@ (IF f.hashtags # <<>> THEN [tags |-> f.hashtags] ELSE <<>>)

\* post_text: prints the progress lines, calls client.create_text once and
\* classifies what comes back.
post_text ==
    LET data == post_data(fields)
        l1 == print_info(out, "Posting to blog", <<>>)
        l2 == print_info(l1, "Title", fields.title)
        l3 == print_info(l2, "Tags",
                         IF fields.hashtags # <<>>
                         THEN Join(fields.hashtags, <<",", " ">>)
                         ELSE <<"N", "o", "n", "e">>)
        l4 == print_info(l3, "Content length", Str(Len(data.body)))
    IN  \E r \in CreateResults :
            /\ calls' = Append(calls, [op |-> "create_text",
                                       blog |-> "TUMBLR_BLOG_NAME",
                                       data |-> data,
                                       returned |-> r])
            /\ IF r.raises
               THEN /\ out' = print_error(l4, "Exception occurred", <<>>)
                    /\ response' = {"error"}
               ELSE /\ response' = r.keys
                    /\ out' =
                         IF "id" \in r.keys
                         THEN IF "post_url" \in r.keys
                              THEN print_info(print_info(l4, "Post created with ID", <<>>),
                                              "Post URL", <<>>)
                              ELSE print_info(l4, "Post created with ID", <<>>)
                         ELSE IF "errors" \in r.keys
                         THEN print_error(l4, "Failed to create post", <<>>)
                         ELSE print_error(l4, "Unexpected response", <<>>)

\* A variant that posts whether or not --dry-run is set.
PostText_without_dry_run_check ==
    /\ pc = "ready"
    /\ post_text
    /\ pc' = "result"
    /\ UNCHANGED <<args, LOUD, file, env, envRead, fields, exitCode, fnIn, fnOut>>

\* main: without --dry-run, the post is dispatched.
PostText ==
    /\ pc = "ready"
    /\ ~args.dry_run
    /\ post_text
    /\ pc' = "result"
    /\ UNCHANGED <<args, LOUD, file, env, envRead, fields, exitCode, fnIn, fnOut>>

\* main: the exit status after the dispatch.
Result ==
    /\ pc = "result"
    /\ IF "error" \in response \/ "errors" \in response THEN Exit(1) ELSE Exit(0)
    /\ UNCHANGED <<args, LOUD, file, env, envRead, fields, out, calls, response, fnIn, fnOut>>

Next ==
    \/ Validate
    \/ InitPoster
    \/ ReadInput
    \/ DryRun
    \/ PostText
    \/ Result

Spec == InitDriver /\ [][Next]_vars

-----------------------------------------------------------------------------
(* What the claims about a run speak of.                                   *)

\* The positions in calls of the post creations and of the identity calls.
Creates == {i \in 1..Len(calls) : calls[i].op = "create_text"}

Infos == {i \in 1..Len(calls) : calls[i].op = "info"}

Exited == pc = "exit"

\* The run was rejected by the input check: the usage error was printed.
Rejected == \E i \in 1..Len(out) : out[i].level = "usage"

\* The client was initialised and the identity call returned a user.
Authenticated == \E i \in Infos : calls[i].returned = "user"

\* The file given, if any, has the three lines the Extractor needs.
FileParses == args.file # <<>> => HasThreeLines(file)

\* A line showing the value under the heading was printed.
Shows(what, value) ==
    \E i \in 1..Len(out) : out[i].what = what /\ out[i].value = value

\* The content a run would post: the file's body, or the composed fields.
IsWouldBeContent(c) ==
    IF args.file # <<>>
    THEN IsTrimOf(c, RestText(file.text))
    ELSE c = ExpectedContent(args)

(* C1: the exit code is 0 when the post succeeds (the response contains    *)
(* id) or the run is a dry run, and 1 on every parse failure, every        *)
(* dispatch failure (the client raises, the response contains errors, or   *)
(* it has an unrecognised shape such as {}) and every missing-input        *)
(* validation failure.                                                     *)
C1_ExitCodeByOutcome ==
    Exited =>
        /\ (\E i \in Creates : "id" \in calls[i].returned.keys) => exitCode = <<0>>
        /\ (args.dry_run /\ Authenticated /\ FileParses) => exitCode = <<0>>
        /\ Rejected => exitCode = <<1>>
        /\ (Authenticated /\ ~FileParses) => exitCode = <<1>>
        /\ (\E i \in Creates :
                \/ calls[i].returned.raises
                \/ "id" \notin calls[i].returned.keys) => exitCode = <<1>>

(* C2: create_text is called at most once in a run, and only after input   *)
(* validation, the presence of all five configuration values,              *)
(* authentication and (for a file) parsing have succeeded, never with the  *)
(* dry-run flag set; no step is repeated and an exited run does nothing    *)
(* more.                                                                   *)
C2_DispatchOnceAfterAllChecks ==
    /\ Cardinality(Creates) <= 1
    /\ Cardinality(Infos) <= 1
    /\ \A i \in Creates :
           /\ args.file # <<>> \/ args.title # <<>> \/ args.description # <<>>
           /\ ~Rejected
           /\ envRead /\ env = ConfigNames
           /\ \E j \in Infos : j < i /\ calls[j].returned = "user"
           /\ FileParses
           /\ ~args.dry_run
    /\ Exited => ~ENABLED Next

\* A failed dispatch of a file's post: one create_text, then exit status 1.
C2_Witness ==
    /\ Exited
    /\ exitCode = <<1>>
    /\ Cardinality(Creates) = 1
    /\ args.file # <<>>

(* C3, as claimed: a run with the dry-run flag makes no call to the        *)
(* external client, neither client.info nor create_text.                   *)
C3_DryRunNoClientCall == args.dry_run => calls = <<>>

(* C3, amended: a run with the dry-run flag never calls create_text; the   *)
(* one call it makes is the identity call of the client's initialisation,  *)
(* made exactly once when the input check passes and all five              *)
(* configuration values are present, and a dry run that renders its        *)
(* content has made it.                                                    *)
C3_DryRunNeverPosts ==
    args.dry_run =>
        /\ Creates = {}
        /\ Len(calls) <= 1
        /\ calls # <<>> => (calls[1].op = "info" /\ env = ConfigNames /\ ~Rejected)
        /\ (envRead /\ env = ConfigNames) => Len(calls) = 1
        /\ (Exited /\ exitCode = <<0>>) =>
               calls = <<[op |-> "info", returned |-> "user"]>>

\* A dry run that has exited with status 0, having called client.info.
C3_Witness ==
    /\ args.dry_run
    /\ Exited
    /\ exitCode = <<0>>
    /\ calls = <<[op |-> "info", returned |-> "user"]>>

(* C4: every dry run that gets past validation, client initialisation and  *)
(* parsing has printed the would-be title, tags, content length and full   *)
(* content when it exits, whether LOUD is set or not; a run that fails     *)
(* has printed an error line, whether LOUD is set or not.                  *)
C4_DryRunRenders ==
    /\ (Exited /\ args.dry_run /\ Authenticated /\ FileParses) =>
           /\ Shows("Title", fields.title)
           /\ Shows("Tags", Join(fields.hashtags, <<",", " ">>))
           /\ \E i \in 1..Len(out) :
                  /\ out[i].what = "Content"
                  /\ IsWouldBeContent(out[i].value)
                  /\ Shows("Content length", Str(Len(out[i].value)))
    /\ (Exited /\ exitCode = <<1>>) => \E i \in 1..Len(out) : out[i].level = "error"

(* C5, as claimed: validation rejects a run exactly when neither a file    *)
(* nor any discrete field (title, description, image URL, alt text, link,  *)
(* hashtags) is supplied, and a rejected run ends as a usage error before  *)
(* any client initialisation.                                              *)
C5_RejectsOnlyWithoutAnyField ==
    pc # "start" =>
        /\ Rejected <=>
               /\ args.file = <<>> /\ args.title = <<>> /\ args.description = <<>>
               /\ args.image_url = <<>> /\ args.alt_text = <<>> /\ args.link = <<>>
               /\ args.hashtags = <<>>
        /\ Rejected => (Exited /\ ~envRead /\ calls = <<>>)

(* C5, amended: validation rejects a run exactly when no file is supplied  *)
(* and neither a title nor a description is; image URL, alt text, link and *)
(* hashtags do not count.  A rejected run ends as a usage error, with      *)
(* status 2, before any client initialisation.                             *)
C5_RejectsWithoutFileTitleDescription ==
    pc # "start" =>
        /\ Rejected <=>
               (args.file = <<>> /\ args.title = <<>> /\ args.description = <<>>)
        /\ Rejected => (Exited /\ exitCode = <<2>> /\ ~envRead /\ calls = <<>>)

\* A run that supplied a link, and nothing else, rejected.
C5_Witness ==
    /\ Rejected
    /\ Exited
    /\ args.link # <<>>
    /\ args.image_url = <<>> /\ args.alt_text = <<>> /\ args.hashtags = <<>>

(* C8: every payload handed to the client has type "text" and format       *)
(* "markdown", a title key iff the title is non-empty and a tags key iff   *)
(* the hashtag sequence is non-empty; its body is the file's body as it is *)
(* when the input came from a file, and the Composer's output over the     *)
(* discrete fields otherwise.                                              *)
C8_PayloadShape ==
    \A i \in Creates :
        LET d == calls[i].data
            title == IF "title" \in DOMAIN d THEN d.title ELSE <<>>
        IN  /\ {"type", "format", "body"} \subseteq DOMAIN d
            /\ DOMAIN d \subseteq {"type", "format", "body", "title", "tags"}
            /\ d.type = "text"
            /\ d.format = "markdown"
            /\ "title" \in DOMAIN d => d.title # <<>>
            /\ IF args.file # <<>>
               THEN IsTrimOf(title, LineText(file.text, 1))
               ELSE title = args.title
            /\ "tags" \in DOMAIN d <=> fields.hashtags # <<>>
            /\ "tags" \in DOMAIN d => d.tags = fields.hashtags
            /\ IsWouldBeContent(d.body)

\* The example file's post handed to the client: its body as it is, with
\* its title and its two tags.
C8_Witness ==
    \E i \in Creates :
        /\ args.file # <<>>
        /\ DOMAIN calls[i].data = {"type", "format", "body", "title", "tags"}
        /\ calls[i].data.body = ExampleBody
        /\ calls[i].data.title = <<"T", "i", "t", "l", "e">>
        /\ calls[i].data.tags = <<<<"a">>, <<"b">>>>

(* C10: on both input paths no tag of the hashtag sequence is the empty    *)
(* string, so the tags of a payload never contain an empty tag.            *)
C10_NoEmptyTag ==
    /\ \A k \in 1..Len(fields.hashtags) : fields.hashtags[k] # <<>>
    /\ \A i \in Creates :
           "tags" \in DOMAIN calls[i].data =>
               \A k \in 1..Len(calls[i].data.tags) : calls[i].data.tags[k] # <<>>

====
